---- MODULE Spec2Model ----
(***************************************************************************)
(* A model of FuriLabs/external-displays: the touch/mouse gesture          *)
(* translator (touch_mouse_emulator.py), the keyboard translator           *)
(* (keyboard_emulator.py) and the display-service lifecycle                *)
(* (external_displays.py, utils.py).                                       *)
(*                                                                         *)
(* Each component has its own variables, actions and specification; the    *)
(* variables of the other components stay as constructed.                  *)
(***************************************************************************)
EXTENDS Integers, Sequences, FiniteSets, TLC

VARIABLES
    \* ---- TouchMouseEmulator fields (touch_mouse_emulator.py:14-66)
    sensitivity,            \* in tenths: 40 is 4.0
    has_moved_threshold,
    is_gesture_dragging,
    touch_active,
    is_dragging,
    drag_start_pos,         \* <<>> is None, else <<x, y>>
    last_pos,               \* <<>> while last_x/last_y are not yet attributes
    last_touch_time,        \* 0, or 1 for "the time of the last single press"
    touch_hold_timer,       \* 0 is None, else the GLib source id stored
    total_movement,
    last_scale,             \* in hundredths: 100 is 1.0
    \* ---- the GLib main loop and the xdotool backend, as the emulator sees them
    glib_timers,            \* ids of the timeout sources still attached
    emitted,                \* commands the last handler handed to the backend
    raised,                 \* the last handler ended with an exception
    \* ---- the platform delivering one contact at a time
    drag_first,             \* GestureDrag's handlers run before GestureClick's
    phase,
    cur_button,
    cur_n_press,
    cur_offset,             \* offset of the last drag-update of the contact
    n_updates,
    last_button,            \* button of the previous contact, 0 if none
    \* ---- what happened in the current gesture session (history)
    ses_clicks,             \* "click 1" commands emitted at the end of the session
    ses_downs,              \* "mousedown 1" commands emitted in the session
    ses_moves,              \* "mousemove_relative" commands emitted in the session
    ses_hold_fired,         \* the hold timer fired in the session
    ses_hold_below,         \* ... while total_movement was below the threshold
    ses_total_over,         \* total_movement exceeded movement_threshold
    ses_path,               \* sum of the magnitudes of the incremental deltas
    ses_path_over,          \* ses_path exceeded movement_threshold
    ses_failed,             \* a backend command could not be spawned
    ses_last_event,         \* the last handler that ran
    \* ---- KeyboardEmulator (keyboard_emulator.py:12-20)
    active_modifiers,       \* 'ctrl', 'alt', 'shift', 'super' -> bool
    kb_emitted,             \* commands the last key handler handed to the backend
    kb_result,              \* what the last key handler returned
    kb_raised,              \* the last key handler let an exception out
    kb_event,               \* the last key event delivered
    \* ---- what happened on the keyboard (history)
    kb_prev_modifiers,      \* active_modifiers before the last key handler ran
    kb_last_mod_cmd,        \* per modifier: the last of keydown/keyup emitted
    kb_double_down,         \* per modifier: a keydown followed a keydown
    kb_state,               \* CONTROL_MASK and ALT_MASK of the last key-down's state
    kb_failed,              \* the last key handler's command could not be spawned
    kb_other_before,        \* the event before the last was on the other variant of
                            \* the same modifier: "no", or that event's type
    \* ---- the display services and ExternalDisplays' lifecycle state
    marker,                 \* ~/.enable_external_display exists
    running,                \* the systemd units that are active
    card_exists,            \* /sys/class/drm/card0 exists
    display_connected,      \* the connector's status file reads "connected"
    switch_active,          \* display_services_switch
    progress_dialog,        \* self.progress_dialog is presented
    ui_enabled,             \* what update_display_ui_state last applied
    idle_queue,             \* callbacks posted with GLib.idle_add, not yet run
    th_op,                  \* per thread: "none", "start" or "stop"
    th_pc,                  \* per thread: the step it is about to take
    th_success,             \* per thread: start_display_services' success
    th_elapsed,             \* per thread: time.time() - start_time of its wait,
                            \* in poll intervals of wait_for_file (0.5 s)
    \* ---- what each thread did in its run (history)
    th_attempted,           \* steps whose call was made
    th_failed,              \* steps whose call failed
    th_posted,              \* callbacks it posted
    th_log,                 \* the calls it made, in order
    th_post_log,            \* the callbacks it posted, in order
    th_had_marker,          \* the marker existed at some point of the run
    lc_last,                \* the last sequence that completed, and
    lc_prev,                \* the one before it
    lc_failed,              \* the steps that failed in the last one
    \* ---- scale_delta_x / scale_delta_y applied to one input
    sd_delta,               \* the raw delta, in pixels
    sd_sensitivity,         \* the sensitivity, in tenths
    sd_scaled,              \* <<>> before the call, <<result>> after it
    \* ---- the last scale-changed event (history)
    zm_event,               \* the last zoom handler that ran
    zm_scale,               \* its scale, in hundredths
    zm_prev_scale           \* last_scale before it ran

gestureVars == <<sensitivity, has_moved_threshold, is_gesture_dragging, touch_active,
                 is_dragging, drag_start_pos, last_pos, last_touch_time,
                 touch_hold_timer, total_movement, last_scale, glib_timers, emitted,
                 raised, drag_first, phase, cur_button, cur_n_press, cur_offset,
                 n_updates, last_button, ses_clicks, ses_downs, ses_moves,
                 ses_hold_fired, ses_hold_below, ses_total_over, ses_path,
                 ses_path_over, ses_failed, ses_last_event>>

keyboardVars == <<active_modifiers, kb_emitted, kb_result, kb_raised, kb_event,
                  kb_prev_modifiers, kb_last_mod_cmd, kb_double_down, kb_state,
                  kb_failed, kb_other_before>>

lifecycleVars == <<marker, running, card_exists, display_connected, switch_active, progress_dialog, ui_enabled,
                   idle_queue, th_op, th_pc, th_success, th_elapsed, th_attempted,
                   th_failed, th_posted, th_log, th_post_log, th_had_marker,
                   lc_last, lc_prev, lc_failed>>

scaleVars == <<sd_delta, sd_sensitivity, sd_scaled>>

zoomVars == <<zm_event, zm_scale, zm_prev_scale>>

vars == <<gestureVars, keyboardVars, lifecycleVars, scaleVars, zoomVars>>

----------------------------------------------------------------------------
(* Bounds of the model *)

\* drag-update events delivered within one contact
MaxUpdates == 2

\* threads the toggle handler may have created that have not finished
MaxThreads == 2

\* the elapsed time a wait keeps track of, in poll intervals of 0.5 s
MaxElapsed == 64

----------------------------------------------------------------------------
(* Program constants *)

\* self.movement_threshold = 10.0
movement_threshold == 10

\* scale_delta_x/y: if abs(scaled) > 50: return 50 if scaled > 0 else -50
MaxScaledDelta == 50

\* self.sensitivity = 4.0, in tenths
InitialSensitivity == 40

\* wait_for_file(path, timeout=30) with time.sleep(0.5), and
\* wait_for_display_connected(card_path, connector, timeout=30) with
\* time.sleep(1): timeouts and sleeps in units of 0.5 s
FileWaitTimeout == 60
FilePollSleep == 1
ConnectedWaitTimeout == 60
ConnectedPollSleep == 2

----------------------------------------------------------------------------
(* Inputs *)

None == <<>>

\* Where contacts start: the handlers only store it.
StartPos == <<100, 100>>

\* Offsets from the start position reported by drag-update: the corners and
\* the centre of a 6 x 8 rectangle, so that every offset and every difference
\* of two offsets has an integer Euclidean magnitude (0, 5, 6, 8 or 10) and
\* (x**2 + y**2)**0.5 is exact.
Offsets == {<<0, 0>>, <<6, 0>>, <<0, 8>>, <<6, 8>>, <<3, 4>>}

Buttons == {1, 3}

\* raw deltas handed to scale_delta_x / scale_delta_y, in pixels
Deltas == -14..14

\* sensitivities: the slider's range is 0.5 to 3.0 and the constructor's
\* value is 4.0; in tenths
Sensitivities == {5, 7, 10, 15, 20, 30, 40}

\* scales reported by scale-changed, in hundredths. No two of them differ by
\* 0.05 or by a multiple of 0.1: there the double arithmetic of
\* "scale - last_scale" and of "delta_scale * 10" falls on either side of the
\* exact value.
Scales == {55, 81, 94, 100, 102, 106, 117, 128, 139, 163}

\* Popen/subprocess.run either spawns the command, or raises once and works
\* when retried, or raises on every attempt of the handler.
SpawnOutcomes == {"ok", "fail_once", "fail_always"}

Abs(n) == IF n < 0 THEN -n ELSE n

\* floor of the square root
Sqrt(n) == CHOOSE r \in 0..n : r * r <= n /\ n < (r + 1) * (r + 1)

\* (offset_x**2 + offset_y**2)**0.5
Magnitude(off) == Sqrt(off[1] * off[1] + off[2] * off[2])

Cmd(name, a, b) == [cmd |-> name, a |-> a, b |-> b]

CountCmd(seq, name, a) ==
    Cardinality({i \in 1..Len(seq) : seq[i].cmd = name /\ seq[i].a = a})

----------------------------------------------------------------------------
(* Services *)

DriverService == "displaylink-driver.service"
DisplayServerService == "external-display-display-server.service"
ExternalDisplayService == "externaldisplay.service"
InputRedirectorService == "input-redirector.service"

Services == {DriverService, DisplayServerService, ExternalDisplayService,
             InputRedirectorService}

Threads == 1..MaxThreads

----------------------------------------------------------------------------
(* Keys *)

Modifiers == {"ctrl", "alt", "shift", "super"}

\* the keys of on_key_pressed's and on_key_released's modifier list
ModifierKeys == {"Control_L", "Control_R", "Alt_L", "Alt_R",
                 "Shift_L", "Shift_R", "Super_L", "Super_R"}

\* modifier_map
modifier_map(keyname) ==
    CASE keyname \in {"Control_L", "Control_R"} -> "ctrl"
      [] keyname \in {"Alt_L", "Alt_R"} -> "alt"
      [] keyname \in {"Shift_L", "Shift_R"} -> "shift"
      [] keyname \in {"Super_L", "Super_R"} -> "super"

\* the list of on_key_pressed's first branch
NavigationKeys == {"Return", "BackSpace", "Tab", "space", "Up", "Down", "Left",
                   "Right", "Home", "End", "Page_Up", "Page_Down", "Delete", "Insert"}

\* keyname.startswith('F') and keyname[1:].isdigit(), over the keys delivered
FunctionKeys == {"F1", "F12"}

\* keys whose chr(keyval) is a printable character, with that character
PrintableKeys == {"a", "A", "1"}

\* a key whose chr(keyval) is not printable, and a keyval Gdk has no name for
\* (Gdk.keyval_name returns None, and keyname.startswith raises)
OtherKeys == {"KP_Unprintable", "NoName"}

\* the key events delivered to the handlers
Keys == ModifierKeys \cup {"Return", "Delete"} \cup FunctionKeys \cup PrintableKeys
        \cup OtherKeys

\* a chord name built without lowering the character
Lower_Identity(char) == char

\* char.lower()
Lower(char) == IF char = "A" THEN "a" ELSE char

----------------------------------------------------------------------------
(* Pure helpers of TouchMouseEmulator *)

\* a conversion to an integer that rounds down
Trunc_Floor(n, d) == n \div d

\* int(): truncation toward zero of n / d
Trunc(n, d) == IF n >= 0 THEN n \div d ELSE -((-n) \div d)

\* scale_delta_x / scale_delta_y (the two bodies are the same); sens in tenths
ScaleDelta(delta, sens) ==
    IF delta = 0 THEN 0
    ELSE LET scaled10 == delta * sens IN
         IF Abs(scaled10) > MaxScaledDelta * 10
         THEN (IF scaled10 > 0 THEN MaxScaledDelta ELSE -MaxScaledDelta)
         ELSE Trunc(scaled10, 10)

\* on_release: "if not self.has_moved_threshold and not self.is_dragging and
\* not self.is_gesture_dragging"
ReleaseIsTap(moved, dragging, gesture_dragging) ==
    ~moved /\ ~dragging /\ ~gesture_dragging

\* on_drag_update: "self.total_movement > self.movement_threshold and not
\* self.has_moved_threshold"
CrossesThreshold(total, moved) == total > movement_threshold /\ ~moved

\* a drag-end decision that uses the full movement threshold
DragEndMoved_Full(distance) == distance > movement_threshold

\* on_drag_end: "total_distance > self.movement_threshold / 2"
DragEndMoved(distance) == 2 * distance > movement_threshold

\* on_touch_hold: "if not self.has_moved_threshold"
HoldStartsDrag(moved) == ~moved

\* GLib.source_remove(id)
SourceRemove(timers, id) == timers \ {id}

\* the id GLib.timeout_add returns: the first one not attached
NewSourceId(timers) ==
    CHOOSE i \in 1..(Cardinality(timers) + 1) :
        i \notin timers /\ \A j \in 1..(i - 1) : j \in timers

\* clear_touch_state, called by execute_command's except branch. The timer is
\* cancelled; with the button held, "mouseup 1" goes through execute_command
\* again: once that spawn works (fail_once) is_dragging is cleared, and while
\* every spawn raises (fail_always) execute_command and clear_touch_state call
\* each other until the interpreter's recursion limit ends the handler with
\* is_dragging still set.
ClearTouchState(outcome, dragging, timer, timers) ==
    [emitted |-> IF dragging THEN <<Cmd("mouseup", 1, 0)>> ELSE <<>>,
     is_dragging |-> dragging /\ outcome = "fail_always",
     touch_hold_timer |-> 0,
     glib_timers |-> IF timer # 0 THEN SourceRemove(timers, timer) ELSE timers,
     raised |-> dragging /\ outcome = "fail_always"]

\* execute_command: Popen, and clear_touch_state when it raises
ExecuteCommand(cmd, outcome, dragging, timer, timers) ==
    IF outcome = "ok"
    THEN [emitted |-> <<cmd>>, is_dragging |-> dragging,
          touch_hold_timer |-> timer, glib_timers |-> timers, raised |-> FALSE]
    ELSE LET c == ClearTouchState(outcome, dragging, timer, timers) IN
         [c EXCEPT !.emitted = <<cmd>> \o c.emitted]

----------------------------------------------------------------------------
(* The platform: which handler may run next *)

\* GestureClick "pressed" for button 1 shares its event with GestureDrag
\* "drag-begin"; GestureDrag listens to button 1 only, so a button-3 contact
\* is a press and a release.
PressTurn(button) ==
    IF button = 1
    THEN IF drag_first THEN phase = "begin" /\ cur_button = 1 ELSE phase = "idle"
    ELSE phase = "idle"

DragBeginTurn ==
    IF drag_first THEN phase = "idle" ELSE phase = "begin" /\ cur_button = 1

ReleaseTurn ==
    IF cur_button = 1
    THEN IF drag_first THEN phase = "end" ELSE phase = "active"
    ELSE phase = "active"

DragEndTurn ==
    cur_button = 1 /\ IF drag_first THEN phase = "active" ELSE phase = "end"

\* A handler that opens a contact starts a new session history.
Opens == phase = "idle"

SessionStep(ev, cmds, failed, opens) ==
    /\ ses_clicks' = (IF opens THEN 0 ELSE ses_clicks) + CountCmd(cmds, "click", 1)
    /\ ses_downs' = (IF opens THEN 0 ELSE ses_downs) + CountCmd(cmds, "mousedown", 1)
    /\ ses_moves' = (IF opens THEN 0 ELSE ses_moves)
                    + Cardinality({i \in 1..Len(cmds) : cmds[i].cmd = "mousemove_relative"})
    /\ ses_failed' = ((~opens /\ ses_failed) \/ failed)
    /\ ses_last_event' = ev

SessionKeep(opens) ==
    /\ ses_hold_fired' = (~opens /\ ses_hold_fired)
    /\ ses_hold_below' = (~opens /\ ses_hold_below)
    /\ ses_total_over' = (~opens /\ ses_total_over)
    /\ ses_path' = (IF opens THEN 0 ELSE ses_path)
    /\ ses_path_over' = (~opens /\ ses_path_over)

----------------------------------------------------------------------------
(* Construction *)

GestureInit ==
    /\ sensitivity = InitialSensitivity
    /\ has_moved_threshold = FALSE
    /\ is_gesture_dragging = FALSE
    /\ touch_active = FALSE
    /\ is_dragging = FALSE
    /\ drag_start_pos = None
    /\ last_pos = None
    /\ last_touch_time = 0
    /\ touch_hold_timer = 0
    /\ total_movement = 0
    /\ last_scale = 100
    /\ glib_timers = {}
    /\ emitted = <<>>
    /\ raised = FALSE
    /\ drag_first \in BOOLEAN
    /\ phase = "idle"
    /\ cur_button = 0
    /\ cur_n_press = 0
    /\ cur_offset = <<0, 0>>
    /\ n_updates = 0
    /\ last_button = 0
    /\ ses_clicks = 0
    /\ ses_downs = 0
    /\ ses_moves = 0
    /\ ses_hold_fired = FALSE
    /\ ses_hold_below = FALSE
    /\ ses_total_over = FALSE
    /\ ses_path = 0
    /\ ses_path_over = FALSE
    /\ ses_failed = FALSE
    /\ ses_last_event = "init"

\* KeyboardEmulator.__init__
KeyboardInit ==
    /\ active_modifiers = [m \in Modifiers |-> FALSE]
    /\ kb_emitted = <<>>
    /\ kb_result = "none"
    /\ kb_raised = FALSE
    /\ kb_event = [type |-> "none", key |-> "none"]
    /\ kb_prev_modifiers = [m \in Modifiers |-> FALSE]
    /\ kb_last_mod_cmd = [m \in Modifiers |-> "none"]
    /\ kb_double_down = [m \in Modifiers |-> FALSE]
    /\ kb_state = [ctrl |-> FALSE, alt |-> FALSE]
    /\ kb_failed = FALSE
    /\ kb_other_before = "no"

\* ExternalDisplays after on_activate: the switch and the UI state follow the
\* two units on_activate and create_config_page look at, and the marker is
\* brought in line with them unless creating or removing it failed.
LifecycleInit ==
    /\ running \in SUBSET Services
    /\ marker \in BOOLEAN
    /\ card_exists \in BOOLEAN
    /\ display_connected \in BOOLEAN
    /\ switch_active = ({DriverService, DisplayServerService} \subseteq running)
    /\ ui_enabled = switch_active
    /\ progress_dialog = FALSE
    /\ idle_queue = <<>>
    /\ th_op = [w \in Threads |-> "none"]
    /\ th_pc = [w \in Threads |-> "idle"]
    /\ th_success = [w \in Threads |-> TRUE]
    /\ th_elapsed = [w \in Threads |-> 0]
    /\ th_attempted = [w \in Threads |-> {}]
    /\ th_failed = [w \in Threads |-> {}]
    /\ th_posted = [w \in Threads |-> {}]
    /\ th_log = [w \in Threads |-> <<>>]
    /\ th_post_log = [w \in Threads |-> <<>>]
    /\ th_had_marker = [w \in Threads |-> FALSE]
    /\ lc_last = "none"
    /\ lc_prev = "none"
    /\ lc_failed = {}

\* the inputs of one call of scale_delta_x / scale_delta_y
ScaleInit ==
    /\ sd_delta \in Deltas
    /\ sd_sensitivity \in Sensitivities
    /\ sd_scaled = <<>>

ScaleIdle ==
    /\ sd_delta = 0
    /\ sd_sensitivity = InitialSensitivity
    /\ sd_scaled = <<>>

\* no zoom handler has run
ZoomInit ==
    /\ zm_event = "none"
    /\ zm_scale = 100
    /\ zm_prev_scale = 100

\* the other components as constructed
GestureIdle ==
    /\ GestureInit
    /\ drag_first = TRUE

LifecycleIdle ==
    /\ LifecycleInit
    /\ running = {}
    /\ marker = FALSE
    /\ card_exists = FALSE
    /\ display_connected = FALSE

Init == GestureInit /\ KeyboardInit /\ LifecycleInit /\ ScaleInit /\ ZoomInit

InitGesture == GestureInit /\ KeyboardInit /\ LifecycleIdle /\ ScaleIdle /\ ZoomInit

InitKeyboard == GestureIdle /\ KeyboardInit /\ LifecycleIdle /\ ScaleIdle /\ ZoomInit

InitLifecycle == GestureIdle /\ KeyboardInit /\ LifecycleInit /\ ScaleIdle /\ ZoomInit

InitScale == GestureIdle /\ KeyboardInit /\ LifecycleIdle /\ ScaleInit /\ ZoomInit

InitZoom == GestureIdle /\ KeyboardInit /\ LifecycleIdle /\ ScaleIdle /\ ZoomInit

----------------------------------------------------------------------------
(* TouchMouseEmulator's handlers *)

\* a press handler that treats every press as a first press
IsDoublePress_Never(n_press) == FALSE

\* on_press: "if n_press == 2"
IsDoublePress(n_press) == n_press = 2

\* on_press(gesture, n_press, x, y). spawned is whether subprocess.run could
\* start the command it is asked to run (it raises otherwise, and the handler
\* ends there).
on_press(button, n_press, spawned) ==
    /\ PressTurn(button)
    /\ n_press = 2 => last_button = 1
    /\ touch_active' = TRUE
    /\ has_moved_threshold' = FALSE
    /\ total_movement' = 0
    /\ IF button = 1 /\ IsDoublePress(n_press)
       THEN /\ emitted' = <<Cmd("double_click", 1, 0)>>
            /\ raised' = ~spawned
            /\ last_touch_time' = IF spawned THEN 0 ELSE last_touch_time
            /\ UNCHANGED <<drag_start_pos, last_pos, touch_hold_timer, glib_timers>>
       ELSE IF button = 1
       THEN /\ emitted' = <<>>
            /\ raised' = FALSE
            /\ last_touch_time' = 1
            /\ drag_start_pos' = StartPos
            /\ last_pos' = StartPos
            /\ LET kept == IF touch_hold_timer # 0
                           THEN SourceRemove(glib_timers, touch_hold_timer)
                           ELSE glib_timers
                   id == NewSourceId(kept)
               IN /\ touch_hold_timer' = id
                  /\ glib_timers' = kept \cup {id}
       ELSE /\ emitted' = <<Cmd("click", 3, 0)>>
            /\ raised' = ~spawned
            /\ UNCHANGED <<last_touch_time, drag_start_pos, last_pos,
                           touch_hold_timer, glib_timers>>
    /\ phase' = IF button = 1 /\ ~drag_first THEN "begin" ELSE "active"
    /\ cur_button' = button
    /\ cur_n_press' = n_press
    /\ cur_offset' = IF Opens THEN <<0, 0>> ELSE cur_offset
    /\ n_updates' = IF Opens THEN 0 ELSE n_updates
    /\ SessionStep("press", emitted', ~spawned /\ emitted' # <<>>, Opens)
    /\ SessionKeep(Opens)
    /\ UNCHANGED <<sensitivity, is_gesture_dragging, is_dragging, last_scale,
                   drag_first, last_button>>
    /\ UNCHANGED <<keyboardVars, lifecycleVars, scaleVars, zoomVars>>

\* on_release(gesture, n_press, x, y)
on_release(spawned) ==
    /\ ReleaseTurn
    /\ touch_active' = FALSE
    /\ touch_hold_timer' = 0
    /\ glib_timers' = IF touch_hold_timer # 0
                      THEN SourceRemove(glib_timers, touch_hold_timer)
                      ELSE glib_timers
    /\ LET tap == cur_button = 1
                  /\ ReleaseIsTap(has_moved_threshold, is_dragging, is_gesture_dragging)
           up == cur_button = 1 /\ ~tap /\ is_dragging
       IN /\ emitted' = IF tap THEN <<Cmd("click", 1, 0)>>
                        ELSE IF up THEN <<Cmd("mouseup", 1, 0)>> ELSE <<>>
          /\ raised' = ((tap \/ up) /\ ~spawned)
          /\ is_dragging' = IF up /\ spawned THEN FALSE ELSE is_dragging
    /\ IF raised'
       THEN UNCHANGED <<drag_start_pos, has_moved_threshold, total_movement>>
       ELSE /\ drag_start_pos' = None
            /\ has_moved_threshold' = FALSE
            /\ total_movement' = 0
    /\ phase' = IF cur_button = 1 /\ ~drag_first THEN "end" ELSE "idle"
    /\ last_button' = IF phase' = "idle" THEN cur_button ELSE last_button
    /\ SessionStep("release", emitted', raised', FALSE)
    /\ SessionKeep(FALSE)
    /\ UNCHANGED <<sensitivity, is_gesture_dragging, last_pos, last_touch_time,
                   last_scale, drag_first, cur_button, cur_n_press, cur_offset,
                   n_updates>>
    /\ UNCHANGED <<keyboardVars, lifecycleVars, scaleVars, zoomVars>>

\* on_touch_hold(): the GLib timeout source id fires, between two events.
\* The source is one-shot: it is detached after the callback, whether the
\* callback returned SOURCE_REMOVE or raised.
on_touch_hold(id, spawned) ==
    /\ phase \in {"idle", "active"}
    /\ id \in glib_timers
    /\ glib_timers' = SourceRemove(glib_timers, id)
    /\ LET drag == HoldStartsDrag(has_moved_threshold) IN
       /\ emitted' = IF drag THEN <<Cmd("mousedown", 1, 0)>> ELSE <<>>
       /\ raised' = (drag /\ ~spawned)
       /\ is_dragging' = IF drag /\ spawned THEN TRUE ELSE is_dragging
       /\ touch_hold_timer' = IF raised' THEN touch_hold_timer ELSE 0
    /\ SessionStep("hold", emitted', raised', FALSE)
    /\ ses_hold_fired' = TRUE
    /\ ses_hold_below' = (ses_hold_below \/
                          (total_movement < movement_threshold
                           /\ ses_path < movement_threshold))
    /\ UNCHANGED <<ses_total_over, ses_path, ses_path_over>>
    /\ UNCHANGED <<sensitivity, has_moved_threshold, is_gesture_dragging, touch_active,
                   drag_start_pos, last_pos, last_touch_time, total_movement,
                   last_scale, drag_first, phase, cur_button, cur_n_press,
                   cur_offset, n_updates, last_button>>
    /\ UNCHANGED <<keyboardVars, lifecycleVars, scaleVars, zoomVars>>

\* on_drag_begin(gesture, start_x, start_y)
on_drag_begin ==
    /\ DragBeginTurn
    /\ drag_start_pos' = StartPos
    /\ is_gesture_dragging' = TRUE
    /\ touch_active' = TRUE
    /\ last_pos' = StartPos
    /\ has_moved_threshold' = FALSE
    /\ total_movement' = 0
    /\ touch_hold_timer' = 0
    /\ glib_timers' = IF touch_hold_timer # 0
                      THEN SourceRemove(glib_timers, touch_hold_timer)
                      ELSE glib_timers
    /\ emitted' = <<>>
    /\ raised' = FALSE
    /\ phase' = IF drag_first THEN "begin" ELSE "active"
    /\ cur_button' = 1
    /\ cur_offset' = IF Opens THEN <<0, 0>> ELSE cur_offset
    /\ n_updates' = IF Opens THEN 0 ELSE n_updates
    /\ SessionStep("drag_begin", <<>>, FALSE, Opens)
    /\ SessionKeep(Opens)
    /\ UNCHANGED <<sensitivity, is_dragging, last_touch_time, last_scale, drag_first,
                   cur_n_press, last_button>>
    /\ UNCHANGED <<keyboardVars, lifecycleVars, scaleVars, zoomVars>>

\* an update handler that does not look at the start position
HasStartPos_Always(start) == TRUE

\* on_drag_update: "if self.drag_start_pos:"
HasStartPos(start) == start # None

\* the body of on_drag_update(gesture, offset_x, offset_y); unpacking a start
\* position that is None raises
DragUpdate(offset, outcome) ==
    /\ n_updates < MaxUpdates
    /\ IF ~HasStartPos(drag_start_pos)
       THEN /\ emitted' = <<>>
            /\ raised' = FALSE
            /\ UNCHANGED <<has_moved_threshold, is_dragging, last_pos, touch_hold_timer,
                           total_movement, glib_timers>>
       ELSE IF drag_start_pos = None
       THEN /\ emitted' = <<>>
            /\ raised' = TRUE
            /\ UNCHANGED <<has_moved_threshold, is_dragging, last_pos, touch_hold_timer,
                           total_movement, glib_timers>>
       ELSE LET current == <<drag_start_pos[1] + offset[1], drag_start_pos[2] + offset[2]>>
                delta == IF last_pos # None
                         THEN <<current[1] - last_pos[1], current[2] - last_pos[2]>>
                         ELSE offset
                total == total_movement + Magnitude(offset)
                crosses == CrossesThreshold(total, has_moved_threshold)
                timer == IF crosses THEN 0 ELSE touch_hold_timer
                timers == IF crosses /\ touch_hold_timer # 0
                          THEN SourceRemove(glib_timers, touch_hold_timer)
                          ELSE glib_timers
                scaled_delta_x == ScaleDelta(delta[1], sensitivity)
                scaled_delta_y == ScaleDelta(delta[2], sensitivity)
                r == ExecuteCommand(
                         Cmd("mousemove_relative", scaled_delta_x, scaled_delta_y),
                         outcome, is_dragging, timer, timers)
            IN /\ total_movement' = total
               /\ has_moved_threshold' = (has_moved_threshold \/ crosses)
               /\ last_pos' = current
               /\ IF Abs(scaled_delta_x) < 1 /\ Abs(scaled_delta_y) < 1
                  THEN /\ emitted' = <<>>
                       /\ raised' = FALSE
                       /\ is_dragging' = is_dragging
                       /\ touch_hold_timer' = timer
                       /\ glib_timers' = timers
                  ELSE /\ emitted' = r.emitted
                       /\ raised' = r.raised
                       /\ is_dragging' = r.is_dragging
                       /\ touch_hold_timer' = r.touch_hold_timer
                       /\ glib_timers' = r.glib_timers
    /\ cur_offset' = offset
    /\ n_updates' = n_updates + 1
    /\ SessionStep("drag_update", emitted', outcome # "ok" /\ emitted' # <<>>, FALSE)
    /\ ses_total_over' = (ses_total_over \/ total_movement' > movement_threshold)
    /\ ses_path' = ses_path + Magnitude(<<offset[1] - cur_offset[1],
                                          offset[2] - cur_offset[2]>>)
    /\ ses_path_over' = (ses_path_over \/ ses_path' > movement_threshold)
    /\ UNCHANGED <<ses_hold_fired, ses_hold_below>>
    /\ UNCHANGED <<sensitivity, is_gesture_dragging, touch_active, drag_start_pos,
                   last_touch_time, last_scale, drag_first, phase, cur_button,
                   cur_n_press, last_button>>
    /\ UNCHANGED <<keyboardVars, lifecycleVars, scaleVars, zoomVars>>

\* drag-update is delivered between the two opening handlers and the first
\* closing handler of a button-1 contact
DragUpdateTurn == phase = "active" /\ cur_button = 1

\* on_drag_update(gesture, offset_x, offset_y)
on_drag_update(offset, outcome) ==
    /\ DragUpdateTurn
    /\ DragUpdate(offset, outcome)

\* a drag-update delivered after "released" and before "drag-end", when the
\* release is handled first
LateUpdateTurn == phase = "end" /\ cur_button = 1 /\ ~drag_first

on_drag_update_after_release(offset, outcome) ==
    /\ LateUpdateTurn
    /\ DragUpdate(offset, outcome)

\* on_drag_end(gesture, offset_x, offset_y): the offset is that of the last
\* point of the contact.
on_drag_end(outcome) ==
    /\ DragEndTurn
    /\ touch_active' = FALSE
    /\ has_moved_threshold' = (has_moved_threshold \/ DragEndMoved(Magnitude(cur_offset)))
    /\ LET r == ExecuteCommand(Cmd("mouseup", 1, 0), outcome, is_dragging,
                               touch_hold_timer, glib_timers)
       IN IF is_dragging
          THEN /\ emitted' = r.emitted
               /\ raised' = r.raised
               /\ is_dragging' = IF r.raised THEN r.is_dragging ELSE FALSE
               /\ touch_hold_timer' = r.touch_hold_timer
               /\ glib_timers' = r.glib_timers
          ELSE /\ emitted' = <<>>
               /\ raised' = FALSE
               /\ UNCHANGED <<is_dragging, touch_hold_timer, glib_timers>>
    /\ IF raised'
       THEN UNCHANGED <<is_gesture_dragging, drag_start_pos>>
       ELSE /\ is_gesture_dragging' = FALSE
            /\ drag_start_pos' = None
    /\ phase' = IF drag_first THEN "end" ELSE "idle"
    /\ last_button' = IF phase' = "idle" THEN cur_button ELSE last_button
    /\ SessionStep("drag_end", emitted', outcome # "ok" /\ emitted' # <<>>, FALSE)
    /\ SessionKeep(FALSE)
    /\ UNCHANGED <<sensitivity, last_pos, last_touch_time, total_movement, last_scale,
                   drag_first, cur_button, cur_n_press, cur_offset, n_updates>>
    /\ UNCHANGED <<keyboardVars, lifecycleVars, scaleVars, zoomVars>>

\* scale_delta_x(delta, 0) or scale_delta_y(delta, 0): the two bodies are the
\* same
scale_delta ==
    /\ sd_scaled = <<>>
    /\ sd_scaled' = <<ScaleDelta(sd_delta, sd_sensitivity)>>
    /\ UNCHANGED <<sd_delta, sd_sensitivity>>
    /\ UNCHANGED <<gestureVars, keyboardVars, lifecycleVars, zoomVars>>

ScaleNext == scale_delta

SpecScale == InitScale /\ [][ScaleNext]_vars

\* on_zoom_begin(gesture, sequence)
on_zoom_begin ==
    /\ last_scale' = 100
    /\ emitted' = <<>>
    /\ raised' = FALSE
    /\ zm_event' = "begin"
    /\ zm_prev_scale' = last_scale
    /\ UNCHANGED zm_scale
    /\ UNCHANGED <<sensitivity, has_moved_threshold, is_gesture_dragging, touch_active,
                   is_dragging, drag_start_pos, last_pos, last_touch_time,
                   touch_hold_timer, total_movement, glib_timers, drag_first, phase,
                   cur_button, cur_n_press, cur_offset, n_updates, last_button,
                   ses_clicks, ses_downs, ses_moves, ses_hold_fired, ses_hold_below,
                   ses_total_over, ses_path, ses_path_over, ses_failed,
                   ses_last_event>>
    /\ UNCHANGED <<keyboardVars, lifecycleVars, scaleVars>>

\* on_zoom_scale_changed: "abs(delta_scale) > 0.05", delta in hundredths
AboveJitter(delta_scale) == Abs(delta_scale) > 5

\* on_zoom_scale_changed: "min(abs(int(delta_scale * 10)), 5)"
scroll_amount(delta_scale) ==
    LET ticks == Abs(Trunc(delta_scale, 10)) IN IF ticks < 5 THEN ticks ELSE 5

\* on_zoom_scale_changed: "4 if scroll_direction == 'down' else 5", with
\* scroll_direction = 'down' if delta_scale < 0 else 'up'
scroll_button(delta_scale) == IF delta_scale < 0 THEN 4 ELSE 5

\* on_zoom_scale_changed(gesture, scale)
on_zoom_scale_changed(scale, outcome) ==
    /\ LET delta_scale == scale - last_scale
           r == ExecuteCommand(
                    Cmd("click_repeat", scroll_amount(delta_scale), scroll_button(delta_scale)),
                    outcome, is_dragging, touch_hold_timer, glib_timers)
       IN IF AboveJitter(delta_scale)
          THEN /\ last_scale' = scale
               /\ IF scroll_amount(delta_scale) > 0
                  THEN /\ emitted' = r.emitted
                       /\ raised' = r.raised
                       /\ is_dragging' = r.is_dragging
                       /\ touch_hold_timer' = r.touch_hold_timer
                       /\ glib_timers' = r.glib_timers
                  ELSE /\ emitted' = <<>>
                       /\ raised' = FALSE
                       /\ UNCHANGED <<is_dragging, touch_hold_timer, glib_timers>>
          ELSE /\ emitted' = <<>>
               /\ raised' = FALSE
               /\ UNCHANGED <<last_scale, is_dragging, touch_hold_timer, glib_timers>>
    /\ zm_event' = "scale_changed"
    /\ zm_scale' = scale
    /\ zm_prev_scale' = last_scale
    /\ UNCHANGED <<sensitivity, has_moved_threshold, is_gesture_dragging, touch_active,
                   drag_start_pos, last_pos, last_touch_time, total_movement,
                   drag_first, phase, cur_button, cur_n_press, cur_offset, n_updates,
                   last_button, ses_clicks, ses_downs, ses_moves, ses_hold_fired,
                   ses_hold_below, ses_total_over, ses_path, ses_path_over, ses_failed,
                   ses_last_event>>
    /\ UNCHANGED <<keyboardVars, lifecycleVars, scaleVars>>

ZoomNext ==
    \/ on_zoom_begin
    \/ \E scale \in Scales, outcome \in SpawnOutcomes : on_zoom_scale_changed(scale, outcome)

SpecZoom == InitZoom /\ [][ZoomNext]_vars

----------------------------------------------------------------------------
(* The gesture translator under the platform's events *)

GestureNext ==
    \/ \E button \in Buttons, n_press \in {1, 2}, spawned \in BOOLEAN :
           on_press(button, n_press, spawned)
    \/ \E spawned \in BOOLEAN : on_release(spawned)
    \/ \E id \in glib_timers, spawned \in BOOLEAN : on_touch_hold(id, spawned)
    \/ on_drag_begin
    \/ \E offset \in Offsets, outcome \in SpawnOutcomes : on_drag_update(offset, outcome)
    \/ \E outcome \in SpawnOutcomes : on_drag_end(outcome)

SpecGesture == InitGesture /\ [][GestureNext]_vars

\* the gesture translator when updates may also arrive after the release
LateUpdateNext ==
    \/ GestureNext
    \/ \E offset \in Offsets, outcome \in SpawnOutcomes :
           on_drag_update_after_release(offset, outcome)

SpecLateUpdate == InitGesture /\ [][LateUpdateNext]_vars

----------------------------------------------------------------------------
(* The settings sheet: external_displays.py *)

\* what the sensitivity slider can hold, in tenths: set_range(0.5, 3.0)
SliderValues == {v \in Sensitivities : 5 <= v /\ v <= 30}

\* on_apply_settings(button): the slider's value is stored in the translator.
\* The display, connector and card entries it also reads are not part of the
\* translator's state.
on_apply_settings(value) ==
    /\ value \in SliderValues
    /\ sensitivity' = value
    /\ UNCHANGED <<has_moved_threshold, is_gesture_dragging, touch_active, is_dragging,
                   drag_start_pos, last_pos, last_touch_time, touch_hold_timer,
                   total_movement, last_scale, glib_timers, emitted, raised,
                   drag_first, phase, cur_button, cur_n_press, cur_offset, n_updates,
                   last_button, ses_clicks, ses_downs, ses_moves, ses_hold_fired,
                   ses_hold_below, ses_total_over, ses_path, ses_path_over, ses_failed,
                   ses_last_event>>
    /\ UNCHANGED <<keyboardVars, lifecycleVars, scaleVars, zoomVars>>

SettingsNext ==
    \/ GestureNext
    \/ \E value \in SliderValues : on_apply_settings(value)

SpecSettings == InitGesture /\ [][SettingsNext]_vars

----------------------------------------------------------------------------
(* KeyboardEmulator's handlers *)

\* a latch check that lets every modifier key-down through
SendsKeydown_Always(latched) == TRUE

\* on_key_pressed: "if not self.active_modifiers[modifier_map[keyname]]"
SendsKeydown(latched) == ~latched

\* a key-up sent only for a modifier that is latched
SendsKeyup_IfLatched(latched) == latched

\* on_key_released: the latch is cleared and "xdotool keyup" issued with no
\* test of the latch
SendsKeyup(latched) == TRUE

\* an execute_command whose Popen is not wrapped, in handlers that do not catch
KeyboardCommandRaises_Unguarded(spawned) == ~spawned

\* KeyboardEmulator.execute_command: Popen inside try/except; whether the
\* handler sees an exception when the command cannot be spawned
KeyboardCommandRaises(spawned) == FALSE

\* the command on_key_pressed issues for a key that is not a modifier
KeyPressCommand(keyname, ctrl, alt) ==
    IF keyname \in NavigationKeys \/ keyname \in FunctionKeys
    THEN <<Cmd("key", keyname, "")>>
    ELSE IF keyname \in PrintableKeys
    THEN IF ctrl /\ alt THEN <<Cmd("key", "ctrl+alt+", Lower(keyname))>>
         ELSE IF ctrl THEN <<Cmd("key", "ctrl+", Lower(keyname))>>
         ELSE IF alt THEN <<Cmd("key", "alt+", Lower(keyname))>>
         ELSE <<Cmd("type", keyname, "")>>
    ELSE <<>>

\* the two keys are the left and the right variant of one modifier
OtherVariant(k1, k2) ==
    /\ k1 \in ModifierKeys /\ k2 \in ModifierKeys
    /\ k1 # k2
    /\ modifier_map(k1) = modifier_map(k2)

KeyboardHistory(cmds) ==
    /\ kb_prev_modifiers' = active_modifiers
    /\ kb_other_before' = IF OtherVariant(kb_event.key, kb_event'.key)
                          THEN kb_event.type ELSE "no"
    /\ kb_last_mod_cmd' =
           [m \in Modifiers |->
               IF \E i \in 1..Len(cmds) : cmds[i].a = m /\ cmds[i].cmd \in {"keydown", "keyup"}
               THEN cmds[Len(cmds)].cmd
               ELSE kb_last_mod_cmd[m]]
    /\ kb_double_down' =
           [m \in Modifiers |->
               kb_double_down[m]
               \/ (kb_last_mod_cmd[m] = "keydown"
                   /\ \E i \in 1..Len(cmds) : cmds[i] = Cmd("keydown", m, ""))]

\* on_key_pressed(controller, keyval, keycode, state); ctrl and alt are
\* state's CONTROL_MASK and ALT_MASK
on_key_pressed(keyname, ctrl, alt, spawned) ==
    /\ kb_event' = [type |-> "pressed", key |-> keyname]
    /\ IF keyname \in ModifierKeys /\ keyname \notin NavigationKeys
       THEN LET m == modifier_map(keyname) IN
            IF SendsKeydown(active_modifiers[m])
            THEN /\ active_modifiers' = [active_modifiers EXCEPT ![m] = TRUE]
                 /\ kb_emitted' = <<Cmd("keydown", m, "")>>
            ELSE /\ active_modifiers' = active_modifiers
                 /\ kb_emitted' = <<>>
       ELSE /\ active_modifiers' = active_modifiers
            /\ kb_emitted' = KeyPressCommand(keyname, ctrl, alt)
    /\ kb_raised' = (kb_emitted' # <<>> /\ KeyboardCommandRaises(spawned))
    /\ kb_result' = "True"
    /\ kb_state' = [ctrl |-> ctrl, alt |-> alt]
    /\ kb_failed' = (kb_emitted' # <<>> /\ ~spawned)
    /\ KeyboardHistory(kb_emitted')
    /\ UNCHANGED <<gestureVars, lifecycleVars, scaleVars, zoomVars>>

\* on_key_released(controller, keyval, keycode, state)
on_key_released(keyname, spawned) ==
    /\ kb_event' = [type |-> "released", key |-> keyname]
    /\ IF keyname \in ModifierKeys
       THEN LET m == modifier_map(keyname) IN
            /\ active_modifiers' = [active_modifiers EXCEPT ![m] = FALSE]
            /\ kb_emitted' = IF SendsKeyup(active_modifiers[m])
                             THEN <<Cmd("keyup", m, "")>>
                             ELSE <<>>
       ELSE /\ active_modifiers' = active_modifiers
            /\ kb_emitted' = <<>>
    /\ kb_raised' = (kb_emitted' # <<>> /\ KeyboardCommandRaises(spawned))
    /\ kb_result' = "False"
    /\ kb_state' = [ctrl |-> FALSE, alt |-> FALSE]
    /\ kb_failed' = (kb_emitted' # <<>> /\ ~spawned)
    /\ KeyboardHistory(kb_emitted')
    /\ UNCHANGED <<gestureVars, lifecycleVars, scaleVars, zoomVars>>

KeyboardNext ==
    \/ \E keyname \in Keys, ctrl \in BOOLEAN, alt \in BOOLEAN, spawned \in BOOLEAN :
           on_key_pressed(keyname, ctrl, alt, spawned)
    \/ \E keyname \in Keys, spawned \in BOOLEAN : on_key_released(keyname, spawned)

SpecKeyboard == InitKeyboard /\ [][KeyboardNext]_vars

----------------------------------------------------------------------------
(* The display-service lifecycle: external_displays.py, utils.py *)

\* start_service(name): StartUnit accepted, or GLib.Error caught
start_service(units, name, ok) == IF ok THEN units \cup {name} ELSE units

\* stop_service(name): StopUnit accepted, or GLib.Error caught
stop_service(units, name, ok) == IF ok THEN units \ {name} ELSE units

\* the units stop_display_services stops, in its order
StoppedUnits == <<ExternalDisplayService, InputRedirectorService, DisplayServerService>>

\* start_display_services: "if success:" before a gated step
Gated(success) == success

\* a final branch that never takes the failure path
RollsBack_Never(success) == FALSE

\* start_display_services: the else branch of the final "if success:"
RollsBack(success) == ~success

\* a run that never counts as successful
SuccessAfterRedirector_Never(success, ok) == FALSE

\* start_display_services: "if not start_service("input-redirector.service"):
\* ... success = False"
SuccessAfterRedirector(success, ok) == success /\ ok

\* the steps start_display_services takes, in order, then "finish"
StartSteps == <<"create_marker", "start_driver", "wait_for_file",
                "wait_for_display_connected", "start_display_server",
                "start_externaldisplay", "start_input_redirector">>

\* the steps whose failure the lifecycle calls a required-step failure
RequiredSteps == {"create_marker", "start_driver", "wait_for_file",
                  "wait_for_display_connected", "start_display_server",
                  "start_externaldisplay"}

IndexOf(seq, x) == CHOOSE i \in 1..Len(seq) : seq[i] = x

StepAfter(step) ==
    LET i == IndexOf(StartSteps, step) IN
    IF i < Len(StartSteps) THEN StartSteps[i + 1] ELSE "finish"

InFlight == {w \in Threads : th_op[w] # "none" /\ th_pc[w] # "done"}

FreeThreads == Threads \ InFlight

\* GLib.idle_add from thread w
Post(w, callbacks) ==
    /\ idle_queue' = idle_queue \o callbacks
    /\ th_posted' = [th_posted EXCEPT ![w] = @ \cup {callbacks[i] : i \in 1..Len(callbacks)}]
    /\ th_post_log' = [th_post_log EXCEPT ![w] = @ \o callbacks]

\* one step of thread w's run is recorded
Record(w, step, attempted, ok) ==
    /\ th_attempted' = [th_attempted EXCEPT ![w] = IF attempted THEN @ \cup {step} ELSE @]
    /\ th_failed' = [th_failed EXCEPT ![w] = IF attempted /\ ~ok THEN @ \cup {step} ELSE @]
    /\ th_log' = [th_log EXCEPT ![w] = IF attempted THEN Append(@, step) ELSE @]

\* on_display_services_toggled(switch, state): a daemon thread runs
\* start_display_services or stop_display_services
on_display_services_toggled(state) ==
    /\ FreeThreads # {}
    /\ LET w == CHOOSE t \in FreeThreads : \A u \in FreeThreads : t <= u IN
       /\ th_op' = [th_op EXCEPT ![w] = IF state THEN "start" ELSE "stop"]
       /\ th_pc' = [th_pc EXCEPT ![w] = IF state THEN "create_marker" ELSE "remove_marker"]
       /\ th_success' = [th_success EXCEPT ![w] = TRUE]
       /\ th_attempted' = [th_attempted EXCEPT ![w] = {}]
       /\ th_failed' = [th_failed EXCEPT ![w] = {}]
       /\ th_posted' = [th_posted EXCEPT ![w] = {}]
       /\ th_log' = [th_log EXCEPT ![w] = <<>>]
       /\ th_post_log' = [th_post_log EXCEPT ![w] = <<>>]
       /\ th_elapsed' = [th_elapsed EXCEPT ![w] = 0]
       /\ th_had_marker' = [th_had_marker EXCEPT ![w] = marker]
    /\ progress_dialog' = TRUE

\* The user flips the switch while no sequence is in flight and the idle
\* callbacks of the last one have run.
UserToggle ==
    /\ InFlight = {}
    /\ idle_queue = <<>>
    /\ switch_active' = ~switch_active
    /\ on_display_services_toggled(switch_active')
    /\ UNCHANGED <<marker, running, card_exists, display_connected, ui_enabled, idle_queue, lc_last, lc_prev, lc_failed>>
    /\ UNCHANGED <<gestureVars, keyboardVars, scaleVars, zoomVars>>

\* start_display_services: open(self.enable_file_path, 'a').close()
CreateMarker(w, ok) ==
    /\ th_op[w] = "start" /\ th_pc[w] = "create_marker"
    /\ marker' = (marker \/ ok)
    /\ th_success' = [th_success EXCEPT ![w] = ok]
    /\ Record(w, "create_marker", TRUE, ok)
    /\ th_had_marker' = [th_had_marker EXCEPT ![w] = @ \/ marker']
    /\ IF ok
       THEN UNCHANGED <<idle_queue, th_posted, th_post_log>>
       ELSE Post(w, <<"toast: Failed to enable display services">>)
    /\ th_pc' = [th_pc EXCEPT ![w] = StepAfter("create_marker")]
    /\ UNCHANGED <<running, card_exists, display_connected, switch_active, progress_dialog, ui_enabled, th_op, th_elapsed,
                   lc_last, lc_prev, lc_failed>>
    /\ UNCHANGED <<gestureVars, keyboardVars, scaleVars, zoomVars>>

\* a step of start_display_services that starts a unit
StartUnitStep(w, step, name, gated, ok, toast) ==
    /\ th_op[w] = "start" /\ th_pc[w] = step
    /\ LET attempted == ~gated \/ Gated(th_success[w]) IN
       /\ running' = IF attempted THEN start_service(running, name, ok) ELSE running
       /\ th_success' = [th_success EXCEPT ![w] =
                            IF step = "start_input_redirector"
                            THEN SuccessAfterRedirector(@, ok)
                            ELSE @ /\ (attempted => ok)]
       /\ Record(w, step, attempted, ok)
       /\ IF attempted /\ ~ok
          THEN Post(w, <<toast>>)
          ELSE UNCHANGED <<idle_queue, th_posted, th_post_log>>
    /\ th_pc' = [th_pc EXCEPT ![w] = StepAfter(step)]
    /\ UNCHANGED <<marker, card_exists, display_connected, switch_active,
                   progress_dialog, ui_enabled, th_op, th_elapsed,
                   th_had_marker, lc_last, lc_prev, lc_failed>>
    /\ UNCHANGED <<gestureVars, keyboardVars, scaleVars, zoomVars>>

\* a wait that never gives up
wait_for_file_NoTimeout(exists, elapsed) ==
    IF exists THEN "True" ELSE "sleep"

\* wait_for_file: one evaluation of "while not os.path.exists(path)" and of
\* the loop's body, at time start_time + elapsed
wait_for_file(exists, elapsed) ==
    IF exists THEN "True"
    ELSE IF elapsed > FileWaitTimeout THEN "False"
    ELSE "sleep"

\* wait_for_display_connected: one evaluation of "while time.time() -
\* start_time < timeout" and of the loop's body
wait_for_display_connected(connected, elapsed) ==
    IF ~(elapsed < ConnectedWaitTimeout) THEN "False"
    ELSE IF connected THEN "True"
    ELSE "sleep"

\* a step of start_display_services that waits, up to its timeout: one round
\* of the wait's loop, which returns or sleeps for its poll interval
WaitStep(w, step, cond, toast) ==
    /\ th_op[w] = "start" /\ th_pc[w] = step
    /\ LET attempted == Gated(th_success[w])
           round == IF step = "wait_for_file"
                    THEN wait_for_file(cond, th_elapsed[w])
                    ELSE wait_for_display_connected(cond, th_elapsed[w])
           sleep == IF step = "wait_for_file" THEN FilePollSleep ELSE ConnectedPollSleep
           ok == round = "True"
       IN IF attempted /\ round = "sleep"
          THEN /\ th_elapsed[w] + sleep <= MaxElapsed
               /\ th_elapsed' = [th_elapsed EXCEPT ![w] = @ + sleep]
               /\ UNCHANGED <<th_success, th_attempted, th_failed, th_log, idle_queue,
                              th_posted, th_post_log, th_pc>>
          ELSE /\ th_elapsed' = [th_elapsed EXCEPT ![w] = 0]
               /\ th_success' = [th_success EXCEPT ![w] = @ /\ (attempted => ok)]
               /\ Record(w, step, attempted, ok)
               /\ IF attempted /\ ~ok
                  THEN Post(w, <<toast>>)
                  ELSE UNCHANGED <<idle_queue, th_posted, th_post_log>>
               /\ th_pc' = [th_pc EXCEPT ![w] = StepAfter(step)]
    /\ UNCHANGED <<marker, running, card_exists, display_connected, switch_active, progress_dialog, ui_enabled, th_op,
                   th_had_marker, lc_last, lc_prev, lc_failed>>
    /\ UNCHANGED <<gestureVars, keyboardVars, scaleVars, zoomVars>>

StartDriver(w, ok) ==
    StartUnitStep(w, "start_driver", DriverService, FALSE, ok,
                  "toast: Failed to start displaylink driver")

WaitForFile(w) ==
    WaitStep(w, "wait_for_file", card_exists, "toast: Timeout waiting for display")

WaitForDisplayConnected(w) ==
    WaitStep(w, "wait_for_display_connected", display_connected,
             "toast: Timeout waiting for display connection")

StartDisplayServer(w, ok) ==
    StartUnitStep(w, "start_display_server", DisplayServerService, TRUE, ok,
                  "toast: Failed to start display server")

StartExternalDisplay(w, ok) ==
    StartUnitStep(w, "start_externaldisplay", ExternalDisplayService, TRUE, ok,
                  "toast: Failed to start external display service")

\* an input-redirector start that is under "if success:" like the steps before it
StartsInputRedirector_IfSuccess(success) == success

\* start_display_services: start_service("input-redirector.service") is
\* called whatever success is
StartsInputRedirector(success) == TRUE

StartInputRedirector(w, ok) ==
    StartUnitStep(w, "start_input_redirector", InputRedirectorService,
                  ~StartsInputRedirector(th_success[w]), ok,
                  "toast: Failed to start input redirector")

\* start_display_services from its final "if success:" to the return
StartFinish(w, removed) ==
    /\ th_op[w] = "start" /\ th_pc[w] = "finish"
    /\ IF RollsBack(th_success[w])
       THEN /\ marker' = (marker /\ ~removed)
            /\ Record(w, "remove_marker", marker, removed)
            /\ Post(w, <<"switch.set_active(False)", "ensure_close_progress_dialog">>)
       ELSE /\ marker' = marker
            /\ UNCHANGED <<th_attempted, th_failed, th_log>>
            /\ Post(w, <<"toast: Display services enabled successfully",
                         "update_display_ui_state(True)",
                         "ensure_close_progress_dialog">>)
    /\ th_pc' = [th_pc EXCEPT ![w] = "done"]
    /\ lc_last' = IF th_success[w] THEN "enable ok" ELSE "enable failed"
    /\ lc_prev' = lc_last
    /\ lc_failed' = th_failed'[w]
    /\ UNCHANGED <<running, card_exists, display_connected, switch_active, progress_dialog, ui_enabled, th_op,
                   th_elapsed, th_success, th_had_marker>>
    /\ UNCHANGED <<gestureVars, keyboardVars, scaleVars, zoomVars>>

\* stop_display_services: os.remove(self.enable_file_path) if it exists
RemoveMarker(w, removed) ==
    /\ th_op[w] = "stop" /\ th_pc[w] = "remove_marker"
    /\ marker' = (marker /\ ~removed)
    /\ Record(w, "remove_marker", marker, removed)
    /\ IF marker /\ ~removed
       THEN Post(w, <<"toast: Failed to disable display services">>)
       ELSE UNCHANGED <<idle_queue, th_posted, th_post_log>>
    /\ th_pc' = [th_pc EXCEPT ![w] = "stop_1"]
    /\ UNCHANGED <<running, card_exists, display_connected, switch_active, progress_dialog, ui_enabled, th_op, th_elapsed,
                   th_success, th_had_marker, lc_last, lc_prev, lc_failed>>
    /\ UNCHANGED <<gestureVars, keyboardVars, scaleVars, zoomVars>>

\* stop_display_services: its i-th stop_service call
StopUnit(w, i, ok) ==
    /\ th_op[w] = "stop" /\ th_pc[w] = <<"stop_1", "stop_2", "stop_3">>[i]
    /\ running' = stop_service(running, StoppedUnits[i], ok)
    /\ Record(w, StoppedUnits[i], TRUE, ok)
    /\ th_pc' = [th_pc EXCEPT ![w] = <<"stop_2", "stop_3", "finish">>[i]]
    /\ UNCHANGED <<marker, card_exists, display_connected, switch_active,
                   progress_dialog, ui_enabled, idle_queue,
                   th_op, th_elapsed, th_success, th_posted, th_post_log, th_had_marker,
                   lc_last, lc_prev, lc_failed>>
    /\ UNCHANGED <<gestureVars, keyboardVars, scaleVars, zoomVars>>

\* a disable that reports success only when none of its calls failed
StopReport_OnlyWhenClean(failed) ==
    IF failed = {}
    THEN <<"toast: Display services stopped successfully",
           "update_display_ui_state(False)",
           "ensure_close_progress_dialog">>
    ELSE <<"ensure_close_progress_dialog">>

\* stop_display_services: the callbacks posted at its end, whatever failed
StopReport(failed) ==
    <<"toast: Display services stopped successfully",
      "update_display_ui_state(False)",
      "ensure_close_progress_dialog">>

\* stop_display_services from clearing input-paths to the return
StopFinish(w) ==
    /\ th_op[w] = "stop" /\ th_pc[w] = "finish"
    /\ Post(w, StopReport(th_failed[w]))
    /\ th_pc' = [th_pc EXCEPT ![w] = "done"]
    /\ lc_last' = "disable"
    /\ lc_prev' = lc_last
    /\ lc_failed' = th_failed[w]
    /\ UNCHANGED <<marker, running, card_exists, display_connected, switch_active, progress_dialog, ui_enabled, th_op,
                   th_elapsed, th_success, th_attempted, th_failed, th_log,
                   th_had_marker>>
    /\ UNCHANGED <<gestureVars, keyboardVars, scaleVars, zoomVars>>

\* The main loop runs the next idle callback: those posted with
\* PRIORITY_HIGH (ensure_close_progress_dialog) before the others.
NextCallback ==
    IF \E i \in 1..Len(idle_queue) : idle_queue[i] = "ensure_close_progress_dialog"
    THEN CHOOSE i \in 1..Len(idle_queue) :
             /\ idle_queue[i] = "ensure_close_progress_dialog"
             /\ \A j \in 1..(i - 1) : idle_queue[j] # "ensure_close_progress_dialog"
    ELSE 1

Without(seq, i) == [j \in 1..(Len(seq) - 1) |-> IF j < i THEN seq[j] ELSE seq[j + 1]]

RunIdleCallback ==
    /\ idle_queue # <<>>
    /\ LET i == NextCallback
           callback == idle_queue[i]
           rest == Without(idle_queue, i)
       IN IF callback = "switch.set_active(False)" /\ switch_active
          THEN \* the switch changes and emits state-set
               /\ switch_active' = FALSE
               /\ on_display_services_toggled(FALSE)
               /\ idle_queue' = rest
               /\ UNCHANGED ui_enabled
          ELSE /\ idle_queue' = rest
               /\ ui_enabled' = IF callback = "update_display_ui_state(True)" THEN TRUE
                                ELSE IF callback = "update_display_ui_state(False)" THEN FALSE
                                ELSE ui_enabled
               /\ progress_dialog' = IF callback = "ensure_close_progress_dialog"
                                     THEN FALSE ELSE progress_dialog
               /\ UNCHANGED <<switch_active, th_op, th_elapsed, th_pc, th_success,
                              th_attempted, th_failed, th_posted, th_log, th_post_log,
                              th_had_marker>>
    /\ UNCHANGED <<marker, running, card_exists, display_connected, lc_last, lc_prev, lc_failed>>
    /\ UNCHANGED <<gestureVars, keyboardVars, scaleVars, zoomVars>>

\* The dock is plugged or unplugged, or its monitor is: the card's path and
\* the connector's status change under the program.
HardwareChanges(exists, connected) ==
    /\ <<exists, connected>> # <<card_exists, display_connected>>
    /\ card_exists' = exists
    /\ display_connected' = connected
    /\ UNCHANGED <<marker, running, switch_active, progress_dialog, ui_enabled,
                   idle_queue, th_op, th_pc, th_success, th_elapsed, th_attempted,
                   th_failed, th_posted, th_log, th_post_log, th_had_marker,
                   lc_last, lc_prev, lc_failed>>
    /\ UNCHANGED <<gestureVars, keyboardVars, scaleVars, zoomVars>>

LifecycleNext ==
    \/ UserToggle
    \/ \E exists \in BOOLEAN, connected \in BOOLEAN : HardwareChanges(exists, connected)
    \/ \E w \in Threads, ok \in BOOLEAN : CreateMarker(w, ok)
    \/ \E w \in Threads, ok \in BOOLEAN : StartDriver(w, ok)
    \/ \E w \in Threads : WaitForFile(w)
    \/ \E w \in Threads : WaitForDisplayConnected(w)
    \/ \E w \in Threads, ok \in BOOLEAN : StartDisplayServer(w, ok)
    \/ \E w \in Threads, ok \in BOOLEAN : StartExternalDisplay(w, ok)
    \/ \E w \in Threads, ok \in BOOLEAN : StartInputRedirector(w, ok)
    \/ \E w \in Threads, removed \in BOOLEAN : StartFinish(w, removed)
    \/ \E w \in Threads, removed \in BOOLEAN : RemoveMarker(w, removed)
    \/ \E w \in Threads, i \in 1..Len(StoppedUnits), ok \in BOOLEAN : StopUnit(w, i, ok)
    \/ \E w \in Threads : StopFinish(w)
    \/ RunIdleCallback

SpecLifecycle == InitLifecycle /\ [][LifecycleNext]_vars

\* the next statement of thread w, whatever it is
ThreadStep(w) ==
    \/ \E ok \in BOOLEAN : CreateMarker(w, ok)
    \/ \E ok \in BOOLEAN : StartDriver(w, ok)
    \/ WaitForFile(w)
    \/ WaitForDisplayConnected(w)
    \/ \E ok \in BOOLEAN : StartDisplayServer(w, ok)
    \/ \E ok \in BOOLEAN : StartExternalDisplay(w, ok)
    \/ \E ok \in BOOLEAN : StartInputRedirector(w, ok)
    \/ \E removed \in BOOLEAN : StartFinish(w, removed)
    \/ \E removed \in BOOLEAN : RemoveMarker(w, removed)
    \/ \E i \in 1..Len(StoppedUnits), ok \in BOOLEAN : StopUnit(w, i, ok)
    \/ StopFinish(w)

\* the application started with no unit active and no marker, the dock
\* plugged in or not
InitStopped ==
    /\ GestureIdle /\ KeyboardInit /\ LifecycleInit /\ ScaleIdle /\ ZoomInit
    /\ running = {}
    /\ marker = FALSE

\* A started thread keeps running: the interpreter schedules it, its calls
\* return and its sleeps end.
SpecLifecycleFair ==
    /\ InitStopped
    /\ [][LifecycleNext]_vars
    /\ \A w \in Threads : WF_vars(ThreadStep(w))

\* The user flips the switch at any time, a sequence in flight or not. The
\* progress dialog is an Adw.Dialog whose can-close is left at its default,
\* so the user can close it and reach the switch again;
\* on_display_services_toggled does not look at the sequence in flight and
\* starts another thread. The requests followed are those made until the
\* first sequence has completed.
UserToggleAnyTime ==
    /\ lc_last = "none"
    /\ idle_queue = <<>>
    /\ switch_active' = ~switch_active
    /\ on_display_services_toggled(switch_active')
    /\ UNCHANGED <<marker, running, card_exists, display_connected, ui_enabled,
                   idle_queue, lc_last, lc_prev, lc_failed>>
    /\ UNCHANGED <<gestureVars, keyboardVars, scaleVars, zoomVars>>

\* the lifecycle with the dock plugged in and its monitor connected, and
\* the switch within the user's reach at any time
InitConcurrent ==
    /\ GestureIdle /\ KeyboardInit /\ LifecycleInit /\ ScaleIdle /\ ZoomInit
    /\ running = {}
    /\ marker = FALSE
    /\ card_exists = TRUE
    /\ display_connected = TRUE

ConcurrentNext ==
    \/ UserToggleAnyTime
    \/ \E w \in Threads, ok \in BOOLEAN : CreateMarker(w, ok)
    \/ \E w \in Threads, ok \in BOOLEAN : StartDriver(w, ok)
    \/ \E w \in Threads : WaitForFile(w)
    \/ \E w \in Threads : WaitForDisplayConnected(w)
    \/ \E w \in Threads, ok \in BOOLEAN : StartDisplayServer(w, ok)
    \/ \E w \in Threads, ok \in BOOLEAN : StartExternalDisplay(w, ok)
    \/ \E w \in Threads, ok \in BOOLEAN : StartInputRedirector(w, ok)
    \/ \E w \in Threads, removed \in BOOLEAN : StartFinish(w, removed)
    \/ \E w \in Threads, removed \in BOOLEAN : RemoveMarker(w, removed)
    \/ \E w \in Threads, i \in 1..Len(StoppedUnits), ok \in BOOLEAN : StopUnit(w, i, ok)
    \/ \E w \in Threads : StopFinish(w)
    \/ RunIdleCallback

SpecConcurrent == InitConcurrent /\ [][ConcurrentNext]_vars

Next == GestureNext \/ ZoomNext \/ ScaleNext \/ KeyboardNext \/ LifecycleNext
        \/ UserToggleAnyTime

Spec == Init /\ [][Next]_vars

----------------------------------------------------------------------------
(* Claims about the gesture translator, under SpecGesture *)

\* the contact of the current session is over: both of its end handlers ran
SessionEnded == phase = "idle" /\ ses_last_event \in {"release", "drag_end"}

\* a session in which every backend command could be spawned, started by a
\* primary press with n_press = 1
PlainPrimarySession == cur_button = 1 /\ cur_n_press = 1 /\ ~ses_failed

\* C1: a session started by a primary press (n_press = 1) whose cumulative
\* movement never exceeded movement_threshold (neither total_movement nor the
\* path length did) and whose hold timer never fired has emitted exactly one
\* "click 1" when its release and its drag-end have both run.
C1_TapEmitsOneClick ==
    (SessionEnded /\ PlainPrimarySession /\ ~ses_total_over /\ ~ses_path_over
     /\ ~ses_hold_fired)
        => ses_clicks = 1

\* C2: a session whose cumulative movement, the sum of the magnitudes of the
\* incremental deltas, exceeded movement_threshold has emitted no "click 1"
\* when its release and its drag-end have both run.
C2_MovedSessionEmitsNoClick ==
    (SessionEnded /\ cur_button = 1 /\ ~ses_failed /\ ses_path_over)
        => ses_clicks = 0

\* C3: when the hold timer fired in a primary-press session whose cumulative
\* movement was still below movement_threshold, the session has emitted
\* "mousedown 1" exactly once and no "click 1" when its release and its
\* drag-end have both run.
C3_HoldEmitsDownOnceAndNoClick ==
    (SessionEnded /\ PlainPrimarySession /\ ses_hold_below)
        => (ses_downs = 1 /\ ses_clicks = 0)

\* C4: after a release or a drag-end has been processed is_dragging is false,
\* whether or not a backend command failed.
C4_NotDraggingAfterEnd ==
    ses_last_event \in {"release", "drag_end"} => ~is_dragging

\* C5: after a release, after a drag-end and after the update in which
\* total_movement crossed movement_threshold, no hold timer is pending.
C5_NoTimerAfterInvalidation ==
    (\/ ses_last_event \in {"release", "drag_end"}
     \/ (ses_last_event = "drag_update" /\ ses_total_over))
        => (glib_timers = {} /\ touch_hold_timer = 0)

----------------------------------------------------------------------------
(* Claims about the keyboard translator, under SpecKeyboard *)

\* C6: a key-down for a modifier key, left or right, whose latch is already
\* true emits no command and leaves active_modifiers as it was; and no
\* "keydown" for a modifier follows another "keydown" for it without a
\* "keyup" in between.
C6_LatchedModifierDownIsSuppressed ==
    /\ \A m \in Modifiers : ~kb_double_down[m]
    /\ (kb_event.type = "pressed" /\ kb_event.key \in ModifierKeys
        /\ kb_prev_modifiers[modifier_map(kb_event.key)])
           => (kb_emitted = <<>> /\ active_modifiers = kb_prev_modifiers)

\* the right control key went down while 'ctrl' was latched by a "keydown"
C6_Witness ==
    /\ kb_event = [type |-> "pressed", key |-> "Control_R"]
    /\ kb_prev_modifiers["ctrl"]
    /\ kb_last_mod_cmd["ctrl"] = "keydown"
    /\ kb_emitted = <<>>

----------------------------------------------------------------------------
(* Claims about the lifecycle, under SpecLifecycle *)

StartDone(w) == th_op[w] = "start" /\ th_pc[w] = "done"

StopDone(w) == th_op[w] = "stop" /\ th_pc[w] = "done"

\* C7: after enable() followed by disable() has completed (every call of the
\* disable having succeeded) the marker file is absent and all four services
\* are stopped.
C7_EnableThenDisableStopsAll ==
    (/\ lc_prev \in {"enable ok", "enable failed"}
     /\ lc_last = "disable"
     /\ \E w \in Threads : StopDone(w) /\ th_failed[w] = {})
        => (~marker /\ running = {})

\* C8: every completed disable() attempted the removal of the marker (when
\* there was one) and the stop of each of the four services.
C8_DisableAttemptsEveryStep ==
    \A w \in Threads :
        StopDone(w) =>
            /\ th_had_marker[w] => "remove_marker" \in th_attempted[w]
            /\ Services \subseteq th_attempted[w]

\* C9 as stated: when a required step of enable() failed, at completion the
\* marker file is absent, the result is failure and no "enabled" transition
\* was posted.
C9_FailedEnableLeavesNoMarker ==
    \A w \in Threads :
        (StartDone(w) /\ th_failed[w] \cap RequiredSteps # {})
            => /\ ~marker
               /\ ~th_success[w]
               /\ "update_display_ui_state(True)" \notin th_posted[w]

\* C9 as amended: when a required step of enable() failed, at completion the
\* removal of the marker file has been attempted if the file was there, the
\* file is absent unless that removal failed, the result is failure and no
\* "enabled" transition was posted.
C9_FailedEnableRollsBackBestEffort ==
    \A w \in Threads :
        (StartDone(w) /\ th_failed[w] \cap RequiredSteps # {})
            => /\ th_had_marker[w] => "remove_marker" \in th_attempted[w]
               /\ marker => "remove_marker" \in th_failed[w]
               /\ ~th_success[w]
               /\ "update_display_ui_state(True)" \notin th_posted[w]

\* an enable() that created the marker, failed at a later required step and
\* removed the marker again
C9_Witness ==
    \E w \in Threads :
        /\ StartDone(w)
        /\ "create_marker" \in th_attempted[w] \ th_failed[w]
        /\ "wait_for_display_connected" \in th_failed[w]
        /\ "remove_marker" \in th_attempted[w] \ th_failed[w]
        /\ ~marker

\* C10: when only the input-redirector start failed, at completion the
\* marker file is present and the switch is not turned back off.
C10_RedirectorFailureKeepsMarker ==
    \A w \in Threads :
        (StartDone(w) /\ th_failed[w] = {"start_input_redirector"})
            => /\ marker
               /\ "switch.set_active(False)" \notin th_posted[w]

\* C11: at no time are two lifecycle sequences in flight, whatever the times
\* at which the switch is toggled.
C11_OneSequenceAtATime == Cardinality(InFlight) <= 1

\* C12: whenever no sequence is in flight and the last completed one did not
\* fail to remove the marker file, the file exists if and only if that
\* sequence was an enable() whose required steps all succeeded; so it is
\* absent after a completed disable() and after a failed enable() whose cleanup
\* ran.
C12_MarkerIffLastEnableSucceeded ==
    (InFlight = {} /\ lc_last # "none" /\ "remove_marker" \notin lc_failed)
        => (marker <=> (/\ lc_last \in {"enable ok", "enable failed"}
                        /\ lc_failed \cap RequiredSteps = {}))

\* C13: in enable() a required step is attempted only if every required step
\* before it succeeded.
C13_StepsGatedOnEarlierSuccess ==
    \A w \in Threads :
        th_op[w] = "start" =>
            \A step \in RequiredSteps \cap th_attempted[w] :
                \A earlier \in RequiredSteps \cap th_failed[w] :
                    ~(IndexOf(StartSteps, earlier) < IndexOf(StartSteps, step))

\* the number of times thread w made the call named step
Calls(w, step) == Cardinality({i \in 1..Len(th_log[w]) : th_log[w][i] = step})

\* C14: in every completed run of enable(), whichever required steps failed,
\* the start of the input redirector was attempted exactly once.
C14_RedirectorStartAlwaysAttemptedOnce ==
    \A w \in Threads : StartDone(w) => Calls(w, "start_input_redirector") = 1

\* an enable() whose driver start failed has completed, and it attempted the
\* start of the input redirector
C14_Witness ==
    \E w \in Threads :
        /\ StartDone(w)
        /\ "start_driver" \in th_failed[w]
        /\ Calls(w, "start_input_redirector") = 1

\* the number of times thread w posted callback
Posts(w, callback) ==
    Cardinality({i \in 1..Len(th_post_log[w]) : th_post_log[w][i] = callback})

C16_DisableAlwaysReportsDisabled ==
    \A w \in Threads :
        StopDone(w)
            => /\ Posts(w, "toast: Display services stopped successfully") = 1
               /\ Posts(w, "update_display_ui_state(False)") = 1

\* a disable() has completed in which the marker removal and all the stops failed
C16_Witness ==
    \E w \in Threads :
        /\ StopDone(w)
        /\ th_failed[w] = {"remove_marker"} \cup {StoppedUnits[i] : i \in 1..Len(StoppedUnits)}
        /\ Posts(w, "update_display_ui_state(False)") = 1

\* C17: every enable() terminates, and one whose hardware-path wait or
\* connection poll ran into its timeout has, at completion, reported that
\* timeout and failed.
C17_EnableTerminatesWithTimeoutReported ==
    /\ \A w \in Threads : (th_op[w] = "start") ~> StartDone(w)
    /\ [](\A w \in Threads :
             StartDone(w) =>
                 /\ "wait_for_file" \in th_failed[w]
                        => /\ Posts(w, "toast: Timeout waiting for display") = 1
                           /\ ~th_success[w]
                 /\ "wait_for_display_connected" \in th_failed[w]
                        => /\ Posts(w, "toast: Timeout waiting for display connection") = 1
                           /\ ~th_success[w])

\* an enable() has completed whose hardware-path wait gave up after its timeout
C17_Witness ==
    \E w \in Threads :
        /\ StartDone(w)
        /\ "wait_for_file" \in th_failed[w]
        /\ Posts(w, "toast: Timeout waiting for display") = 1

\* C18: a gesture session whose cumulative movement stays below
\* movement_threshold and whose hold timer never fired emits no
\* "mousemove_relative" command.
C18_SmallMovementEmitsNoMove ==
    (/\ ses_last_event = "drag_update"
     /\ total_movement < movement_threshold
     /\ ses_path < movement_threshold
     /\ ~ses_hold_fired)
        => ses_moves = 0

----------------------------------------------------------------------------
(* Claims about scale_delta_x / scale_delta_y, under SpecScale *)

\* delta x sensitivity, in tenths
RawScaled == sd_delta * sd_sensitivity

\* clamp(delta x sensitivity, -50, +50), in tenths
Clamped ==
    IF RawScaled > 500 THEN 500 ELSE IF RawScaled < -500 THEN -500 ELSE RawScaled

\* C19: the scaled delta is clamp(delta x sensitivity, -50, +50) truncated
\* toward zero, lies in -50..50, and is zero exactly when
\* |delta x sensitivity| < 1.
C19_ScaledDeltaIsClampedTruncation ==
    sd_scaled # <<>> =>
        LET result == sd_scaled[1] IN
        /\ result \in -50..50
        /\ Abs(result) * 10 <= Abs(Clamped) /\ Abs(Clamped) < (Abs(result) + 1) * 10
        /\ (result > 0 => Clamped > 0) /\ (result < 0 => Clamped < 0)
        /\ (result = 0 <=> Abs(RawScaled) < 10)

\* a negative delta whose product with the sensitivity is not an integer and
\* is not clamped has been scaled
C19_Witness ==
    /\ sd_scaled # <<>>
    /\ sd_delta < 0
    /\ RawScaled % 10 # 0
    /\ Abs(RawScaled) > 10
    /\ Abs(RawScaled) < 500

----------------------------------------------------------------------------
(* Claims about the zoom handlers, under SpecZoom *)

\* the delta of the last scale-changed event, in hundredths
ZoomDelta == zm_scale - zm_prev_scale

\* |round(delta x 10)| for a delta that is not half-way between two ticks
RoundedTicks == (Abs(ZoomDelta) + 5) \div 10

\* C20: a scale-changed event with |scale - lastScale| > 0.05 yields
\* min(|round(delta x 10)|, 5) ticks and, when that is more than 0, exactly one
\* scroll command with that many ticks, down (button 4) for a negative delta
\* and up (button 5) for a positive one.
C20_ScrollTicksAreRounded ==
    (zm_event = "scale_changed" /\ Abs(ZoomDelta) > 5 /\ Abs(ZoomDelta) % 10 # 5)
        => LET ticks == IF RoundedTicks < 5 THEN RoundedTicks ELSE 5 IN
           IF ticks > 0
           THEN emitted = <<Cmd("click_repeat", ticks, IF ZoomDelta < 0 THEN 4 ELSE 5)>>
           ELSE emitted = <<>>

\* C21: a key-up for either side of a modifier clears the canonical latch and
\* emits exactly one key-up for the canonical name, latched before or not, and
\* touches no other latch; a key-up for any other key emits nothing and leaves
\* the modifier set as it was.
C21_ModifierKeyUpAlwaysReleases ==
    kb_event.type = "released" =>
        IF kb_event.key \in ModifierKeys
        THEN LET m == modifier_map(kb_event.key) IN
             /\ ~active_modifiers[m]
             /\ kb_emitted = <<Cmd("keyup", m, "")>>
             /\ \A o \in Modifiers \ {m} : active_modifiers[o] = kb_prev_modifiers[o]
        ELSE /\ kb_emitted = <<>>
             /\ active_modifiers = kb_prev_modifiers

\* a right-hand shift released while shift was not latched and ctrl was
C21_Witness ==
    /\ kb_event = [type |-> "released", key |-> "Shift_R"]
    /\ ~kb_prev_modifiers["shift"]
    /\ kb_prev_modifiers["ctrl"]
    /\ active_modifiers["ctrl"]
    /\ kb_emitted = <<Cmd("keyup", "shift", "")>>

\* C22: both key handlers return the same "handled" result for every key event.
C22_BothHandlersReportHandled ==
    kb_event.type # "none" => kb_result = "True"

\* C23: a key-down on a printable character emits exactly one command chosen by
\* the event's modifier state: the ctrl+alt chord, else the ctrl chord, else the
\* alt chord, each on the lowercased character, else the character typed as is.
C23_PrintableKeyDownCommand ==
    (kb_event.type = "pressed" /\ kb_event.key \in PrintableKeys) =>
        LET char == kb_event.key
            lowered == IF char = "A" THEN "a" ELSE char
        IN  kb_emitted =
                IF kb_state.ctrl /\ kb_state.alt THEN <<Cmd("key", "ctrl+alt+", lowered)>>
                ELSE IF kb_state.ctrl THEN <<Cmd("key", "ctrl+", lowered)>>
                ELSE IF kb_state.alt THEN <<Cmd("key", "alt+", lowered)>>
                ELSE <<Cmd("type", char, "")>>

\* an upper-case letter pressed with ctrl and alt both in the event state, while
\* neither modifier is latched
C23_Witness ==
    /\ kb_event = [type |-> "pressed", key |-> "A"]
    /\ kb_state = [ctrl |-> TRUE, alt |-> TRUE]
    /\ ~active_modifiers["ctrl"] /\ ~active_modifiers["alt"]
    /\ kb_emitted = <<Cmd("key", "ctrl+alt+", "a")>>

\* C24: when the backend cannot run a command a key handler issued, nothing
\* propagates to the caller and the handler returns what it always returns.
C24_BackendFailureIsSwallowed ==
    kb_failed =>
        /\ ~kb_raised
        /\ kb_event.type = "pressed" => kb_result = "True"
        /\ kb_event.type = "released" => kb_result = "False"

\* a modifier key-up whose command could not be spawned
C24_Witness ==
    /\ kb_failed
    /\ kb_event = [type |-> "released", key |-> "Alt_L"]
    /\ kb_emitted = <<Cmd("keyup", "alt", "")>>
    /\ kb_result = "False"
    /\ ~kb_raised

\* C25: on every drag update the cumulative movement grows by the length of the
\* step since the previous update, so it equals the length of the path so far.
C25_TotalMovementIsPathLength ==
    (ses_last_event = "drag_update" /\ drag_start_pos # None) =>
        total_movement = ses_path

\* C26: once a release or a drag-end has been handled, the cumulative movement
\* is zero and the touch indicator is cleared, on every branch.
C26_ContactEndClearsMovement ==
    (ses_last_event \in {"release", "drag_end"} /\ ~ses_failed) =>
        (total_movement = 0 /\ ~touch_active)

\* C27: after a first primary press, in either order of press and drag-begin,
\* as long as no release, drag-end or threshold crossing has happened the hold
\* timer is pending, and when it fires 'button-1 down' is emitted and the drag
\* button is held.
C27_HoldTimerPendingUntilFired ==
    /\ (phase = "active" /\ cur_button = 1 /\ cur_n_press = 1 /\ ~ses_failed
        /\ ~has_moved_threshold /\ ~ses_hold_fired)
           => (touch_hold_timer # 0 /\ touch_hold_timer \in glib_timers)
    /\ (phase = "active" /\ cur_button = 1 /\ cur_n_press = 1 /\ ~ses_failed
        /\ ~has_moved_threshold /\ ses_last_event = "hold")
           => (emitted = <<Cmd("mousedown", 1, 0)>> /\ is_dragging)

\* the contact of a double press: from the press to the end of the contact
DoublePressContact ==
    /\ cur_button = 1 /\ cur_n_press = 2
    /\ \/ phase \in {"active", "end"}
       \/ phase = "begin" /\ ~drag_first

\* C28: a double press emits one 'double click' at once, starts no hold timer
\* and leaves none pending, so no 'button-1 down' follows in that contact.
C28_DoublePressBypassesHoldTimer ==
    /\ (DoublePressContact /\ ses_last_event = "press")
           => emitted = <<Cmd("double_click", 1, 0)>>
    /\ DoublePressContact => (glib_timers = {} /\ ses_downs = 0)

\* a double press delivered after its drag-begin, with no timer left behind
C28_Witness ==
    /\ DoublePressContact
    /\ ses_last_event = "press"
    /\ drag_first
    /\ emitted = <<Cmd("double_click", 1, 0)>>
    /\ touch_hold_timer = 0

\* C29: in press, release, press (second of a double), release, the release
\* after the double press emits no 'click button 1'.
C29_ReleaseAfterDoublePressIsSilent ==
    (ses_last_event = "release" /\ cur_button = 1 /\ cur_n_press = 2) =>
        CountCmd(emitted, "click", 1) = 0

\* C30: a secondary press emits exactly one secondary click, starts no hold
\* timer and changes none of the cumulative movement, the threshold flag and
\* the drag-button flag; its release emits no command.
C30_SecondaryPressLeavesSessionAlone ==
    [][ /\ (ses_last_event' = "press" /\ cur_button' = 3) =>
              /\ emitted' = <<Cmd("click", 3, 0)>>
              /\ UNCHANGED <<glib_timers, touch_hold_timer>>
              /\ UNCHANGED <<total_movement, has_moved_threshold, is_dragging>>
        /\ (ses_last_event' = "release" /\ cur_button' = 3) => emitted' = <<>>
      ]_vars

\* C31: a drag-end marks the contact as moved exactly when the final offset is
\* farther than half the movement threshold from the start, whether or not the
\* updates crossed the full threshold, and the release handled after such a
\* drag-end emits no click.
C31_DragEndUsesHalfThreshold ==
    /\ (ses_last_event = "drag_end" /\ 2 * Magnitude(cur_offset) > movement_threshold)
           => has_moved_threshold
    /\ (ses_last_event = "drag_end" /\ 2 * Magnitude(cur_offset) <= movement_threshold
        /\ ~ses_total_over)
           => ~has_moved_threshold
    /\ (ses_last_event = "release" /\ cur_button = 1 /\ drag_first
        /\ 2 * Magnitude(cur_offset) > movement_threshold)
           => CountCmd(emitted, "click", 1) = 0

\* a contact that ended 6 units from its start without the updates crossing the
\* full threshold: the drag-end marked it, and the release after it was silent
C31_Witness ==
    /\ ses_last_event = "release" /\ cur_button = 1 /\ cur_n_press = 1
    /\ drag_first
    /\ cur_offset = <<6, 0>>
    /\ ~ses_total_over /\ ~ses_hold_fired /\ ~ses_failed
    /\ emitted = <<>>

\* C32: a scale-changed event moves last_scale to the new scale only when it
\* emits a scroll command; at or below the jitter floor, and when the tick count
\* is 0, last_scale keeps its value.
C32_LastScaleMovesOnlyOnScroll ==
    zm_event = "scale_changed" =>
        IF \E i \in 1..Len(emitted) : emitted[i].cmd = "click_repeat"
        THEN last_scale = zm_scale
        ELSE last_scale = zm_prev_scale

\* C33: in every reachable state of the gesture translator, from construction
\* on and after any settings change, the sensitivity lies in [0.5, 3.0].
C33_SensitivityInSliderRange ==
    5 <= sensitivity /\ sensitivity <= 30

\* C34: a handler that sends its command through execute_command never raises
\* to its caller, and when the command fails while the drag button is held the
\* cleanup (a second command, 'button-1 up') ends with the button no longer
\* held and the hold timer cancelled.
C34_FailureCleanupTerminates ==
    ses_last_event \in {"drag_update", "drag_end"} =>
        /\ ~raised
        /\ Len(emitted) = 2 => (~is_dragging /\ touch_hold_timer = 0)

\* C35: a failed enable() is followed by a disable(): the posted switch-off is
\* pending with the switch still on, or the disable() it starts is running;
\* and when that disable() completes with none of its calls failing, the
\* driver the failed enable() had started is stopped, as are the other units.
C35_FailedEnableIsFollowedByDisable ==
    /\ [](lc_last = "enable failed" =>
             \/ /\ switch_active
                /\ \E i \in 1..Len(idle_queue) : idle_queue[i] = "switch.set_active(False)"
             \/ \E w \in Threads : th_op[w] = "stop" /\ th_pc[w] # "done")
    /\ [][(/\ lc_last = "enable failed" /\ lc_last' = "disable"
           /\ lc_failed' = {}
           /\ "start_driver" \notin lc_failed)
              => running' = {}]_vars

\* C36: 'button-1 down' is never emitted while the drag button is already held
\* and 'button-1 up' is emitted only while it is held, so that the two
\* alternate starting with down.
C36_ButtonDownAndUpAlternate ==
    [][ /\ (\E i \in 1..Len(emitted') : emitted'[i].cmd = "mousedown") => ~is_dragging
        /\ (\E i \in 1..Len(emitted') : emitted'[i].cmd = "mouseup") => is_dragging
      ]_vars

\* C37: at most one hold timer is pending, and the stored timer handle is
\* non-null exactly when one is pending, in which case it is that timer's.
C37_TimerHandleMatchesPendingTimer ==
    /\ Cardinality(glib_timers) <= 1
    /\ (touch_hold_timer # 0) <=> (glib_timers # {})
    /\ glib_timers # {} => touch_hold_timer \in glib_timers

\* C38: the two variants of a modifier share one latch: a press of one variant
\* right after a press of the other emits no 'key down'; a release of one
\* variant right after a press or a release of the other clears the latch and
\* emits 'key up', so that releasing both emits 'key up' twice.
C38_VariantsShareOneLatch ==
    kb_other_before # "no" =>
        LET m == modifier_map(kb_event.key) IN
        /\ (kb_other_before = "pressed" /\ kb_event.type = "pressed")
               => (kb_emitted = <<>> /\ active_modifiers[m])
        /\ kb_event.type = "released"
               => (kb_emitted = <<Cmd("keyup", m, "")>> /\ ~active_modifiers[m])

\* the right control key released right after the left one, the latch already
\* cleared: the second 'key up' for ctrl in a row
C38_Witness ==
    /\ kb_event = [type |-> "released", key |-> "Control_R"]
    /\ kb_other_before = "released"
    /\ ~kb_prev_modifiers["ctrl"]
    /\ kb_emitted = <<Cmd("keyup", "ctrl", "")>>
    /\ ~active_modifiers["ctrl"]
    /\ ~kb_failed

\* C39: a drag update that arrives when no start position is recorded emits no
\* command, returns normally and leaves the cumulative movement, the threshold
\* flag, the drag-button flag and the hold timer as they were.
C39_UpdateWithoutSessionIsIgnored ==
    [][ (ses_last_event' = "drag_update" /\ drag_start_pos = None) =>
            /\ emitted' = <<>>
            /\ ~raised'
            /\ UNCHANGED <<total_movement, has_moved_threshold, is_dragging>>
            /\ UNCHANGED <<touch_hold_timer, glib_timers>>
      ]_vars

\* an update 10 units from the start, delivered after the release cleared the
\* start position and before the drag-end: nothing emitted, nothing counted
C39_Witness ==
    /\ ses_last_event = "drag_update"
    /\ phase = "end" /\ ~drag_first
    /\ drag_start_pos = None
    /\ cur_offset = <<6, 8>>
    /\ emitted = <<>>
    /\ total_movement = 0 /\ ~has_moved_threshold

====
